---- MODULE Spec2Model ----
(***************************************************************************)
(* A model of billing.py: main() as a sequential state machine (one action *)
(* per stage of main, one action per iteration of query_costs' page loop), *)
(* with the command line, config.json, the process environment and the     *)
(* Cost Explorer responses as inputs fixed by the initial state.           *)
(*                                                                         *)
(* Text is modelled as a sequence of one-character strings, so that        *)
(* splitting, stripping, suffix handling and sorting are computed as the   *)
(* code computes them.  A date is a record [year, month, day]; the ISO     *)
(* string of a date (Cost Explorer's TimePeriod.Start) is the number       *)
(* yyyymmdd, whose order is the order of the fixed-width ISO strings.      *)
(* Amounts are counted in halves of a currency unit, so that quantize()    *)
(* has something to round.  A NextPageToken is a number, 0 standing for    *)
(* the absent (or empty) token that ends the page loop.                    *)
(*                                                                         *)
(* Left out: the --account filter (passed on to the request unchanged),    *)
(* the thousands separators and the padding of the printed cells, the      *)
(* terminal control codes of the status line, and upper-case suffixes.     *)
(***************************************************************************)
EXTENDS Integers, Sequences, FiniteSets, TLC

\* ------------------------------------------------------------------ bounds

\* Longest page sequence a Cost Explorer script holds.
MaxPages == 3
\* Largest --months / default_months value of the "ordinary" range.
MaxMonths == 14

\* ------------------------------------------------------------------ text

\* The characters in use, in code-point order.
Alphabet ==
    <<" ", ",", ".", "1", "2", "_", "a", "b", "c", "d", "e", "f", "h",
      "l", "m", "n", "o", "p", "r", "s", "t", "u", "v", "x", "y">>

Ord(c) == CHOOSE i \in 1..Len(Alphabet) : Alphabet[i] = c

\* str < str, as Python compares strings (used by sorted()).
RECURSIVE StrLess(_, _)
StrLess(s, t) ==
    IF t = <<>> THEN FALSE
    ELSE IF s = <<>> THEN TRUE
    ELSE IF Head(s) = Head(t) THEN StrLess(Tail(s), Tail(t))
    ELSE Ord(Head(s)) < Ord(Head(t))

\* sorted(set(xs)) for a set of strings.
RECURSIVE SortedStrs(_)
SortedStrs(S) ==
    IF S = {} THEN <<>>
    ELSE LET m == CHOOSE x \in S : \A y \in S \ {x} : StrLess(x, y)
         IN  <<m>> \o SortedStrs(S \ {m})

\* str.strip(): without the leading and trailing blanks.
RECURSIVE LStrip(_)
LStrip(s) == IF s # <<>> /\ Head(s) = " " THEN LStrip(Tail(s)) ELSE s

RECURSIVE RStrip(_)
RStrip(s) ==
    IF s # <<>> /\ s[Len(s)] = " " THEN RStrip(SubSeq(s, 1, Len(s) - 1)) ELSE s

Strip(s) == LStrip(RStrip(s))

\* str.split(","): the fields between the commas, the empty ones included.
RECURSIVE SplitFrom(_, _, _)
SplitFrom(s, i, field) ==
    IF i > Len(s) THEN <<field>>
    ELSE IF s[i] = "," THEN <<field>> \o SplitFrom(s, i + 1, <<>>)
    ELSE SplitFrom(s, i + 1, Append(field, s[i]))

Split(s) == SplitFrom(s, 1, <<>>)

Range(f) == {f[i] : i \in DOMAIN f}

\* list(dict.fromkeys(xs)): the first occurrence of each element, in order.
RECURSIVE Dedupe(_)
Dedupe(xs) ==
    IF xs = <<>> THEN <<>>
    ELSE LET init == Dedupe(SubSeq(xs, 1, Len(xs) - 1))
             last == xs[Len(xs)]
         IN  IF last \in Range(init) THEN init ELSE Append(init, last)

DEFAULT_PROFILE_LABEL == <<"_", "_", "d", "e", "f", "a", "u", "l", "t", "_", "_">>
DEFAULT_PROFILE_DISPLAY == <<"d", "e", "f", "a", "u", "l", "t">>
DEFAULT_OUTPUT_BASENAME ==
    <<"m", "o", "n", "t", "h", "l", "y", "_", "c", "o", "s", "t", "s">>

\* ------------------------------------------------------------------ dates

Date(y, m, d) == [year |-> y, month |-> m, day |-> d]

\* dt.date(year, month, 1) raises ValueError outside MINYEAR..MAXYEAR.
ValueError == [error |-> "ValueError"]

month_start(date) == [date EXCEPT !.day = 1]

shift_months_trunc(reference, offset) ==
    LET month_index == reference.month - 1 + offset
        quot == IF month_index >= 0 THEN month_index \div 12
                ELSE -((-month_index) \div 12)
        rem == month_index - 12 * quot
        year == reference.year + quot
    IN  IF year \in 1..9999 THEN Date(year, rem + 1, 1) ELSE ValueError

shift_months(reference, offset) ==
    LET month_index == reference.month - 1 + offset
        year == reference.year + (month_index \div 12)
        month == (month_index % 12) + 1
    IN  IF year \in 1..9999 THEN Date(year, month, 1) ELSE ValueError

\* An optional value (None or a value) is a sequence of length 0 or 1.
None == <<>>
Some(x) == <<x>>

\* main, lines 275-277: months = max(1, --months if given else default_months)
resolve_months(args_months, default_months) ==
    LET n == IF args_months # None THEN args_months[1] ELSE default_months
    IN  IF n > 1 THEN n ELSE 1

\* ------------------------------------------------------------------ paths

\* A path is [parent |-> sequence of directory names, name |-> text]; a
\* directory is absolute when it starts at "/".
PROJECT_ROOT == <<"/", "app">>

IsAbsolute(dir) == dir # <<>> /\ dir[1] = "/"

\* (PROJECT_ROOT / dir).resolve() for a relative dir, dir itself otherwise.
Resolve(dir) == IF IsAbsolute(dir) THEN dir ELSE PROJECT_ROOT \o dir

\* str.rfind("."): the last position of a dot (1-based), 0 when there is none.
RECURSIVE RFindDot(_, _)
RFindDot(name, i) ==
    IF i = 0 THEN 0 ELSE IF name[i] = "." THEN i ELSE RFindDot(name, i - 1)

\* PurePath.suffix: the last dot and what follows it, unless the dot is the
\* first or the last character of the name.
Suffix(name) ==
    LET j == RFindDot(name, Len(name))
    IN  IF 1 < j /\ j < Len(name) THEN SubSeq(name, j, Len(name)) ELSE <<>>

\* PurePath.with_suffix(ext)
WithSuffix(path, ext) ==
    LET name == path.name
        stem == SubSeq(name, 1, Len(name) - Len(Suffix(name)))
    IN  [path EXCEPT !.name = stem \o ext]

\* PurePath.with_name(name)
WithName(path, name) == [path EXCEPT !.name = name]

ExtCsv == <<".", "c", "s", "v">>
ExtTsv == <<".", "t", "s", "v">>
ExtTxt == <<".", "t", "x", "t">>

\* main, lines 282-295: the base path of the output files.
output_path_of(a, c) ==
    LET output_dir == Resolve(c.output_dir)
    IN  IF a.output # None
        THEN [a.output[1] EXCEPT !.parent = Resolve(a.output[1].parent)]
        ELSE [parent |-> output_dir, name |-> DEFAULT_OUTPUT_BASENAME]

\* main, lines 297-316: the formats to write, in the order they are written.
formats_of(a, c) ==
    LET selected ==
            IF a.format # ""
            THEN IF a.format = "all" THEN <<"table", "csv", "tsv">>
                 ELSE <<a.format>>
            ELSE IF c.export_files_by_default THEN <<"table", "csv", "tsv">>
            ELSE <<>>
    IN  SelectSeq(selected, LAMBDA fmt : fmt \in {"table", "csv", "tsv"})

\* A variant that writes the table to the base path itself.
target_no_txt(fmt, base_path) ==
    IF fmt = "csv" THEN WithSuffix(base_path, ExtCsv)
    ELSE IF fmt = "tsv" THEN WithSuffix(base_path, ExtTsv)
    ELSE base_path

\* main, lines 326-334: the file one format is written to.
target_of(fmt, base_path) ==
    LET suffix == Suffix(base_path.name)
    IN  IF fmt = "csv"
        THEN IF Suffix(base_path.name) # <<>>
             THEN WithSuffix(base_path, ExtCsv)
             ELSE WithName(base_path, base_path.name \o ExtCsv)
        ELSE IF fmt = "tsv"
        THEN IF Suffix(base_path.name) # <<>>
             THEN WithSuffix(base_path, ExtTsv)
             ELSE WithName(base_path, base_path.name \o ExtTsv)
        ELSE IF suffix \in {ExtCsv, ExtTsv}
             THEN WithSuffix(base_path, ExtTxt)
             ELSE IF Suffix(base_path.name) # <<>>
                  THEN WithSuffix(base_path, ExtTxt)
                  ELSE WithName(base_path, base_path.name \o ExtTxt)

\* main, lines 322-336: the dict output_files, as its items in order.
output_files_of(a, c) ==
    LET fmts == formats_of(a, c)
        base_path == output_path_of(a, c)
    IN  [i \in 1..Len(fmts) |->
            [fmt |-> fmts[i], path |-> target_of(fmts[i], base_path)]]

\* ------------------------------------------------------------------ profiles

\* A variant that takes the fields of MONTHLY_COSTS_EXCLUDE as they are.
env_excluded_unstripped(env_exclude) ==
    IF env_exclude # <<>>
    THEN {p : p \in {q \in Range(Split(env_exclude)) : q # <<>>}}
    ELSE {}

\* main, lines 341-343: the names MONTHLY_COSTS_EXCLUDE holds.
env_excluded(env_exclude) ==
    IF env_exclude # <<>>
    THEN {Strip(p) : p \in {q \in Range(Split(env_exclude)) : Strip(q) # <<>>}}
    ELSE {}

\* main, lines 340-345: the set excluded.
excluded_of(a, c, e) ==
    Range(c.ignore_profiles)
        \cup env_excluded(e.MONTHLY_COSTS_EXCLUDE)
        \cup Range(a.exclude)

\* main, lines 347-364: the profiles to query, or the SystemExit raised.
resolve_profiles(a, c, e) ==
    LET excluded == excluded_of(a, c, e)
        listed == SelectSeq(e.available_profiles, LAMBDA p : p \notin excluded)
        found ==
            IF a.profiles # <<>> THEN Dedupe(a.profiles)
            ELSE IF listed = <<>> /\ e.has_credentials
                    /\ DEFAULT_PROFILE_DISPLAY \notin excluded
            THEN <<DEFAULT_PROFILE_LABEL>>
            ELSE listed
    IN  IF found = <<>>
        THEN [profiles |-> <<>>,
              exit |-> IF a.all_profiles THEN "no profiles after exclusion"
                       ELSE "no profiles configured"]
        ELSE [profiles |-> IF a.profiles # <<>> THEN Dedupe(found)
                           ELSE SortedStrs(Range(found)),
              exit |-> ""]

\* ------------------------------------------------------------------ dicts

\* A dict whose order is never read is a function on its keys.
EmptyMap == [k \in {} |-> 0]

MapGet(f, k, default) == IF k \in DOMAIN f THEN f[k] ELSE default

MapSet(f, k, v) == [x \in DOMAIN f \cup {k} |-> IF x = k THEN v ELSE f[x]]

\* A dict that is iterated is the sequence of its items [k, v], in insertion
\* order; assigning to a key it holds keeps the key's place.
DictKeys(d) == {d[i].k : i \in DOMAIN d}

DictGet(d, k, default) ==
    IF k \in DictKeys(d)
    THEN d[CHOOSE i \in DOMAIN d : d[i].k = k].v
    ELSE default

DictSet(d, k, v) ==
    IF k \in DictKeys(d)
    THEN [i \in DOMAIN d |-> IF d[i].k = k THEN [k |-> k, v |-> v] ELSE d[i]]
    ELSE Append(d, [k |-> k, v |-> v])

\* ------------------------------------------------------------------ Cost Explorer

\* What the Cost Explorer of one profile answers: `pages` are the
\* ResultsByTime lists of the pages of get_cost_and_usage, `names` the
\* DimensionValues lists of the pages of get_dimension_values; the request
\* number fail_at of get_cost_and_usage raises (0: none does), and
\* names_fail makes get_dimension_values raise.  Page i carries the
\* NextPageToken i, the last page none (0).
NextPageToken(pages, i) == IF i < Len(pages) THEN i ELSE 0

get_cost_and_usage(script, token) ==
    [ResultsByTime |-> script.pages[token + 1],
     NextPageToken |-> NextPageToken(script.pages, token + 1)]

get_dimension_values(script, token) ==
    [DimensionValues |-> script.names[token + 1],
     NextPageToken |-> NextPageToken(script.names, token + 1)]

\* query_costs, lines 169-191: the RECORD_TYPE filter of the request.
record_type_filter(exclude_credits, only_credits) ==
    IF only_credits THEN "only Credit, Refund"
    ELSE IF exclude_credits THEN "not Credit, Refund"
    ELSE "none"

\* query_costs, lines 220-222, over the items of one response.
RECURSIVE add_totals(_, _)
add_totals(totals, items) ==
    IF items = <<>> THEN totals
    ELSE LET item == Head(items)
             month == item.Start
         IN  add_totals(MapSet(totals, month, MapGet(totals, month, 0) + item.Total),
                        Tail(items))

\* query_costs, lines 215-219, over the groups of one item.
RECURSIVE add_groups(_, _, _)
add_groups(totals_by_account, month, groups) ==
    IF groups = <<>> THEN totals_by_account
    ELSE LET group == Head(groups)
             account_id == group.Key
             account_totals == DictGet(totals_by_account, account_id, EmptyMap)
         IN  add_groups(
                 DictSet(totals_by_account, account_id,
                         MapSet(account_totals, month,
                                MapGet(account_totals, month, 0) + group.Amount)),
                 month, Tail(groups))

\* query_costs, lines 212-219, over the items of one response.
RECURSIVE add_totals_by_account(_, _)
add_totals_by_account(totals_by_account, items) ==
    IF items = <<>> THEN totals_by_account
    ELSE add_totals_by_account(
             add_groups(totals_by_account, Head(items).Start, Head(items).Groups),
             Tail(items))

\* A variant that keeps only the last amount seen for a month.
accumulate_last(group_by_account, totals, items) ==
    IF items = <<>> THEN totals
    ELSE IF group_by_account THEN add_totals_by_account(<<>>, items)
    ELSE add_totals(EmptyMap, items)

\* query_costs, lines 212-222: one response added to the totals.
accumulate(group_by_account, totals, items) ==
    IF group_by_account THEN add_totals_by_account(totals, items)
    ELSE add_totals(totals, items)

\* fetch_account_names, lines 257-264, over the items of one response.
RECURSIVE add_names(_, _)
add_names(names, items) ==
    IF items = <<>> THEN names
    ELSE LET item == Head(items)
         IN  add_names(IF item.Value # <<>> /\ item.Description # <<>>
                       THEN MapSet(names, item.Value, item.Description)
                       ELSE names,
                       Tail(items))

\* fetch_account_names, lines 251-268: the loop from the request with `token`.
RECURSIVE names_from(_, _, _)
names_from(script, token, names) ==
    LET response == get_dimension_values(script, token)
        added == add_names(names, response.DimensionValues)
    IN  IF response.NextPageToken = 0 THEN added
        ELSE names_from(script, response.NextPageToken, added)

fetch_account_names(script) == names_from(script, 0, EmptyMap)

\* ------------------------------------------------------------------ rows

display_name_of(profile) ==
    IF profile = DEFAULT_PROFILE_LABEL THEN DEFAULT_PROFILE_DISPLAY ELSE profile

\* main, lines 426-427: f"{display_name} [{account_label}]"
row_key_of(display_name, account_names, account_id) ==
    display_name \o <<" ", "[">> \o MapGet(account_names, account_id, account_id)
        \o <<"]">>

\* main, lines 425-429: the rows of one profile's accounts added to results.
RECURSIVE add_account_rows(_, _, _, _)
add_account_rows(res, display_name, account_names, account_totals) ==
    IF account_totals = <<>> THEN res
    ELSE LET item == Head(account_totals)
         IN  add_account_rows(
                 DictSet(res, row_key_of(display_name, account_names, item.k), item.v),
                 display_name, account_names, Tail(account_totals))

\* main, lines 421-433: results after one profile's query has returned.
collect_results(res, by_account, display_name, totals, account_names) ==
    IF by_account
    THEN add_account_rows(res, display_name, account_names, totals)
    ELSE DictSet(res, display_name, totals)

\* main, lines 429 and 433: the months one profile's query adds to all_months.
collect_months(by_account, totals) ==
    IF by_account
    THEN UNION {DOMAIN totals[i].v : i \in DOMAIN totals}
    ELSE DOMAIN totals

\* sorted(all_months)
RECURSIVE SortedInts(_)
SortedInts(S) ==
    IF S = {} THEN <<>>
    ELSE LET m == CHOOSE x \in S : \A y \in S : x <= y
         IN  <<m>> \o SortedInts(S \ {m})

\* month[:7], the YYYY-MM of an ISO date string.
month_label(month) == month \div 100

\* Decimal.quantize(Decimal("1")) of an amount in halves: the nearest whole
\* number, a tie going to the even one.
Quantize(halves) ==
    LET q == halves \div 2
    IN  IF halves % 2 = 0 THEN q ELSE IF q % 2 = 0 THEN q ELSE q + 1

\* main, lines 447-454: one row of raw_rows.
row_of(key, totals, sorted_months) ==
    <<key>> \o [i \in 1..Len(sorted_months) |->
                  Quantize(MapGet(totals, sorted_months[i], 0))]

\* main, lines 440-458: the table [headers, rows].
table_of(res, months_seen) ==
    LET sorted_months == SortedInts(months_seen)
    IN  [headers |-> <<"profile">> \o [i \in 1..Len(sorted_months) |->
                                          month_label(sorted_months[i])],
         rows |-> [i \in 1..Len(res) |-> row_of(res[i].k, res[i].v, sorted_months)]]

\* ------------------------------------------------------------------ state

VARIABLES
    args,          \* the parsed command line
    config,        \* load_config()
    environ,       \* the environment variables, the clock, ~/.aws
    ce,            \* per profile, what its Cost Explorer answers
    pc,            \* where main is
    exit,          \* the SystemExit (or uncaught exception) main ended with
    months,        \* main's months
    output_files,  \* main's output_files, as items [fmt, path] in order
    dirs,          \* the directories created by mkdir
    profiles,      \* main's profiles
    start,         \* main's start
    end,           \* main's end
    results,       \* main's results, as items [k, v] in insertion order
    all_months,    \* main's all_months
    index,         \* the profile loop's index
    token,         \* query_costs' token
    totals,        \* query_costs' totals or totals_by_account
    requests,      \* every request sent to Cost Explorer, in order
    stdout,        \* what has been printed, in order
    fidx,          \* the position of the file loop in output_files
    files          \* the files written: path -> contents

vars ==
    <<args, config, environ, ce, pc, exit, months, output_files, dirs,
      profiles, start, end, results, all_months, index, token, totals,
      requests, stdout, fidx, files>>

inputs == <<args, config, environ, ce>>

\* The state main starts in.
MainInit ==
    /\ pc = "start"
    /\ exit = ""
    /\ months = 0
    /\ output_files = <<>>
    /\ dirs = {}
    /\ profiles = <<>>
    /\ start = ValueError
    /\ end = ValueError
    /\ results = <<>>
    /\ all_months = {}
    /\ index = 0
    /\ token = 0
    /\ totals = <<>>
    /\ requests = <<>>
    /\ stdout = <<>>
    /\ fidx = 0
    /\ files = EmptyMap

IsError(x) == "error" \in DOMAIN x

\* ------------------------------------------------------------------ main

\* A variant that rejects the run as soon as one of the two flags is given.
credits_conflict_either(a) == a.exclude_credits \/ a.only_credits

\* main, line 279
credits_conflict(a) == a.exclude_credits /\ a.only_credits

\* main, lines 272-280: the arguments and the config are read, months is
\* clamped, the two credit flags are checked against each other.
ParseArgs ==
    /\ pc = "start"
    /\ months' = resolve_months(args.months, config.default_months)
    /\ IF credits_conflict(args)
       THEN pc' = "exit" /\ exit' = "exclude-credits with only-credits"
       ELSE pc' = "outputs" /\ exit' = exit
    /\ UNCHANGED <<inputs, output_files, dirs, profiles, start, end, results,
                   all_months, index, token, totals, requests, stdout, fidx,
                   files>>

\* main, lines 282-336: the output files are named and their directories made.
ResolveOutputs ==
    /\ pc = "outputs"
    /\ output_files' = output_files_of(args, config)
    /\ dirs' = {output_files'[i].path.parent : i \in DOMAIN output_files'}
    /\ pc' = "profiles"
    /\ UNCHANGED <<inputs, exit, months, profiles, start, end, results,
                   all_months, index, token, totals, requests, stdout, fidx,
                   files>>

\* main, lines 338-364: the profiles to query are resolved.
ResolveProfiles ==
    /\ pc = "profiles"
    /\ LET r == resolve_profiles(args, config, environ)
       IN  /\ profiles' = r.profiles
           /\ exit' = r.exit
           /\ pc' = IF r.exit # "" THEN "exit" ELSE "period"
    /\ UNCHANGED <<inputs, months, output_files, dirs, start, end, results,
                   all_months, index, token, totals, requests, stdout, fidx,
                   files>>

\* main, lines 366-368
period_start(today, n) == shift_months(month_start(today), -(n - 1))

\* main, lines 366-369
period_end(today) == shift_months(month_start(today), 1)

\* main, lines 366-398: the period is computed; the profile loop is entered.
ComputePeriod ==
    /\ pc = "period"
    /\ start' = period_start(environ.today, months)
    /\ end' = period_end(environ.today)
    /\ IF IsError(start') \/ IsError(end')
       THEN pc' = "exit" /\ exit' = "ValueError" /\ index' = index
       ELSE pc' = "loop" /\ exit' = exit /\ index' = 1
    /\ UNCHANGED <<inputs, months, output_files, dirs, profiles, results,
                   all_months, token, totals, requests, stdout, fidx, files>>

\* A variant that walks the profiles from the last to the first.
profile_at_reversed(ps, i) == ps[Len(ps) - i + 1]

\* main, line 400: the profile of the loop's iteration i.
profile_at(ps, i) == ps[i]

\* A variant that queries a failed profile again.
index_after_error_retry(i) == i

\* main, lines 416-419: the loop goes on with the next profile.
index_after_error(i) == i + 1

\* The get_cost_and_usage requests sent for a profile so far.
cost_requests(log, profile) ==
    SelectSeq(log, LAMBDA r : r.api = "get_cost_and_usage" /\ r.profile = profile)

\* main, lines 400-403, and query_costs, lines 149-207: the next profile's
\* query begins.
BeginProfile ==
    /\ pc = "loop"
    /\ index <= Len(profiles)
    /\ stdout' = Append(stdout,
                        [kind |-> "status",
                         text |-> display_name_of(profile_at(profiles, index))])
    /\ token' = 0
    /\ totals' = IF args.by_account THEN <<>> ELSE EmptyMap
    /\ pc' = "query"
    /\ UNCHANGED <<inputs, exit, months, output_files, dirs, profiles, start,
                   end, results, all_months, index, requests, fidx, files>>

\* query_costs, lines 208-225: one iteration of the page loop, and main,
\* lines 416-419, when the request raises.
QueryPage ==
    /\ pc = "query"
    /\ LET profile == profile_at(profiles, index)
           script == ce[profile]
           sent == Len(cost_requests(requests, profile))
           request == [api |-> "get_cost_and_usage",
                       profile |-> profile,
                       token |-> token,
                       filter |-> record_type_filter(args.exclude_credits,
                                                     args.only_credits),
                       group_by |-> args.by_account,
                       start |-> start,
                       end |-> end]
       IN  /\ requests' = Append(requests, request)
           /\ IF script.fail_at = sent + 1
              THEN /\ stdout' = Append(stdout, [kind |-> "error", text |-> profile])
                   /\ index' = index_after_error(index)
                   /\ pc' = "loop"
                   /\ UNCHANGED <<token, totals>>
              ELSE LET response == get_cost_and_usage(script, token)
                   IN  /\ totals' = accumulate(args.by_account, totals,
                                               response.ResultsByTime)
                       /\ token' = response.NextPageToken
                       /\ pc' = IF response.NextPageToken = 0 THEN "return"
                                ELSE "query"
                       /\ UNCHANGED <<stdout, index>>
    /\ UNCHANGED <<inputs, exit, months, output_files, dirs, profiles, start,
                   end, results, all_months, fidx, files>>

\* query_costs, lines 227-230, and main, lines 416-433: the account names are
\* fetched in by-account mode, the query returns and its rows are collected.
ReturnQuery ==
    /\ pc = "return"
    /\ LET profile == profile_at(profiles, index)
           script == ce[profile]
           request == [api |-> "get_dimension_values",
                       profile |-> profile,
                       token |-> 0,
                       filter |-> "none",
                       group_by |-> args.by_account,
                       start |-> start,
                       end |-> end]
       IN  IF args.by_account /\ script.names_fail
           THEN /\ requests' = Append(requests, request)
                /\ stdout' = Append(stdout, [kind |-> "error", text |-> profile])
                /\ index' = index_after_error(index)
                /\ UNCHANGED <<results, all_months>>
           ELSE /\ requests' = IF args.by_account THEN Append(requests, request)
                               ELSE requests
                /\ results' = collect_results(
                                  results, args.by_account, display_name_of(profile),
                                  totals,
                                  IF args.by_account THEN fetch_account_names(script)
                                  ELSE EmptyMap)
                /\ all_months' = all_months \cup collect_months(args.by_account, totals)
                /\ index' = index + 1
                /\ UNCHANGED stdout
    /\ pc' = "loop"
    /\ UNCHANGED <<inputs, exit, months, output_files, dirs, profiles, start,
                   end, token, totals, fidx, files>>

\* main, lines 435-484: the loop is over; without results main exits, with
\* results the table is printed.
Render ==
    /\ pc = "loop"
    /\ index > Len(profiles)
    /\ IF results = <<>>
       THEN /\ pc' = "exit"
            /\ exit' = "no results"
            /\ UNCHANGED <<stdout, fidx>>
       ELSE LET table == table_of(results, all_months)
                head == IF args.header
                        THEN <<[kind |-> "header", text |-> table.headers]>>
                        ELSE <<>>
                body == [i \in 1..Len(table.rows) |->
                            [kind |-> "row", text |-> table.rows[i]]]
            IN  /\ stdout' = stdout \o head \o body
                /\ pc' = "write"
                /\ fidx' = 1
                /\ exit' = exit
    /\ UNCHANGED <<inputs, months, output_files, dirs, profiles, start, end,
                   results, all_months, index, token, totals, requests, files>>

\* main, lines 494-518: one output file is written.
WriteFile ==
    /\ pc = "write"
    /\ fidx <= Len(output_files)
    /\ LET table == table_of(results, all_months)
           out == output_files[fidx]
       IN  files' = MapSet(files, out.path,
                           [fmt |-> out.fmt, headers |-> table.headers,
                            rows |-> table.rows])
    /\ fidx' = fidx + 1
    /\ UNCHANGED <<inputs, pc, exit, months, output_files, dirs, profiles, start,
                   end, results, all_months, index, token, totals, requests,
                   stdout>>

\* main, lines 520-526: the destinations are reported and main returns.
Finish ==
    /\ pc = "write"
    /\ fidx > Len(output_files)
    /\ stdout' = IF output_files # <<>>
                 THEN Append(stdout, [kind |-> "exported", text |-> dirs])
                 ELSE stdout
    /\ pc' = "done"
    /\ UNCHANGED <<inputs, exit, months, output_files, dirs, profiles, start,
                   end, results, all_months, index, token, totals, requests,
                   fidx, files>>

Next ==
    \/ ParseArgs
    \/ ResolveOutputs
    \/ ResolveProfiles
    \/ ComputePeriod
    \/ BeginProfile
    \/ QueryPage
    \/ ReturnQuery
    \/ Render
    \/ WriteFile
    \/ Finish

\* ------------------------------------------------------------------ inputs

\* date.isoformat(), as the number yyyymmdd.
Iso(date) == date.year * 10000 + date.month * 100 + date.day

SeqsUpTo(S, n) == UNION {[1..k -> S] : k \in 1..n}

ProfA == <<"a">>
ProfB == <<"b">>
ProfAB == <<"a", "b">>

Acc1 == <<"1", "1", "1">>
Acc2 == <<"2", "2", "2">>
NameSandbox == <<"s", "b", "x">>
NameProd == <<"p", "r", "d">>

Oct == Iso(Date(2026, 10, 1))
Nov == Iso(Date(2026, 11, 1))
Dec == Iso(Date(2026, 12, 1))

Group(account_id, amount) == [Key |-> account_id, Amount |-> amount]
Item(month, total, groups) == [Start |-> month, Total |-> total, Groups |-> groups]

ItemA == Item(Oct, 3, <<Group(Acc1, 1), Group(Acc2, 2)>>)
ItemB == Item(Nov, 5, <<Group(Acc1, 5)>>)
ItemC == Item(Oct, -1, <<Group(Acc2, -1)>>)
ItemD == Item(Dec, 0, <<>>)

PageCatalog ==
    {<<>>, <<ItemA>>, <<ItemB>>, <<ItemC>>, <<ItemD>>, <<ItemA, ItemB>>,
     <<ItemB, ItemC>>}

Named(account_id, description) == [Value |-> account_id, Description |-> description]

NamesNone == <<<<>>>>
NamesSame == <<<<Named(Acc1, NameSandbox), Named(Acc2, NameSandbox)>>>>
NamesPaged ==
    <<<<Named(Acc1, NameProd)>>, <<Named(Acc2, <<>>), Named(<<>>, NameSandbox)>>>>

Script(pages, fail_at, names, names_fail) ==
    [pages |-> pages, fail_at |-> fail_at, names |-> names, names_fail |-> names_fail]

ScriptPlain == Script(<<<<ItemA>>>>, 0, NamesPaged, FALSE)

ScriptCatalog ==
    {ScriptPlain,
     Script(<<<<ItemA>>, <<ItemB, ItemC>>>>, 0, NamesNone, FALSE),
     Script(<<<<ItemB, ItemC>>>>, 0, NamesSame, FALSE),
     Script(<<<<ItemD>>>>, 0, NamesNone, FALSE),
     Script(<<<<ItemA>>>>, 1, NamesNone, FALSE),
     Script(<<<<ItemA>>, <<ItemB>>>>, 2, NamesNone, FALSE),
     Script(<<<<ItemB>>>>, 0, NamesNone, TRUE)}

ProfileNames == {ProfA, ProfB, ProfAB, DEFAULT_PROFILE_DISPLAY, DEFAULT_PROFILE_LABEL}

\* The parse of an empty command line.
ArgsDefault ==
    [months |-> None, profiles |-> <<>>, exclude |-> <<>>, all_profiles |-> FALSE,
     exclude_credits |-> FALSE, only_credits |-> FALSE, by_account |-> FALSE,
     format |-> "", output |-> None, header |-> TRUE]

\* DEFAULT_CONFIG
ConfigDefault ==
    [ignore_profiles |-> <<>>, default_months |-> 6, output_dir |-> <<>>,
     export_files_by_default |-> TRUE]

\* `excluded_names` is what MONTHLY_COSTS_EXCLUDE was written from; main reads
\* the variable only.
EnvironDefault ==
    [MONTHLY_COSTS_EXCLUDE |-> <<>>, excluded_names |-> <<>>,
     today |-> Date(2026, 11, 2), available_profiles |-> <<ProfB, ProfA>>,
     has_credentials |-> TRUE]

CeDefault == [p \in ProfileNames |-> ScriptPlain]

\* ---- the whole run: the profile loop under failing and succeeding queries

Init ==
    /\ \E by_account \in BOOLEAN, exclude_credits \in BOOLEAN, only_credits \in BOOLEAN,
          header \in BOOLEAN, given \in {<<>>, <<ProfB, ProfA, ProfB>>} :
          args = [ArgsDefault EXCEPT !.by_account = by_account,
                                     !.exclude_credits = exclude_credits,
                                     !.only_credits = only_credits,
                                     !.header = header,
                                     !.profiles = given]
    /\ config = ConfigDefault
    /\ environ = [EnvironDefault EXCEPT !.available_profiles = <<ProfB, ProfAB, ProfA>>]
    /\ \E a \in ScriptCatalog, b \in ScriptCatalog,
          ab \in {ScriptPlain, Script(<<<<ItemA>>>>, 1, NamesNone, FALSE)} :
          ce = [CeDefault EXCEPT ![ProfA] = a, ![ProfB] = b, ![ProfAB] = ab]
    /\ MainInit

Spec == Init /\ [][Next]_vars

\* ---- the period: every months value and current date

Today ==
    {Date(y, m, d) : y \in {2026, 2027}, m \in 1..12, d \in {1, 28}}

InitPeriod ==
    /\ \E m \in {None} \cup {Some(n) : n \in (-2..MaxMonths) \cup {30000}} :
          args = [ArgsDefault EXCEPT !.months = m]
    /\ \E d \in {-1, 0, 6, 13} : config = [ConfigDefault EXCEPT !.default_months = d]
    /\ \E t \in Today : environ = [EnvironDefault EXCEPT !.today = t]
    /\ ce = CeDefault
    /\ MainInit

SpecPeriod == InitPeriod /\ [][Next]_vars

\* ---- the pages: every page sequence of get_cost_and_usage

InitQuery ==
    /\ \E by_account \in BOOLEAN : args = [ArgsDefault EXCEPT !.by_account = by_account]
    /\ config = ConfigDefault
    /\ environ = [EnvironDefault EXCEPT !.available_profiles = <<ProfA>>]
    /\ \E pages \in SeqsUpTo(PageCatalog, MaxPages), names \in {NamesSame, NamesPaged} :
          ce = [CeDefault EXCEPT ![ProfA] = Script(pages, 0, names, FALSE)]
    /\ MainInit

SpecQuery == InitQuery /\ [][Next]_vars

\* ------------------------------------------------------------------ claims

\* The number of the month of a date, counted from year 0.
MonthOrd(date) == date.year * 12 + date.month - 1

\* The --months value if given, else default_months.
RequestedMonths ==
    IF Len(args.months) = 1 THEN args.months[1] ELSE config.default_months

\* max(1, n)
AtLeastOne(n) == IF n >= 1 THEN n ELSE 1

\* shift_months(reference, offset) is the first day of the month `offset`
\* months after `reference`, unless that date cannot be represented.
ShiftCorrect(reference, offset) ==
    LET shifted == shift_months(reference, offset)
    IN  IsError(shifted)
        \/ /\ shifted.day = 1
           /\ shifted.month \in 1..12
           /\ MonthOrd(shifted) = MonthOrd(reference) + offset

\* C4: once the period is computed, it starts on the first day of the month
\* max(1, n) - 1 months before the current month and ends on the first day of
\* the month after the current month, so it covers max(1, n) whole months, and
\* every request carries that period; shift_months yields a month in 1..12
\* and the right year for the positive and negative offsets of the run.
C4_Period ==
    (~IsError(start) /\ ~IsError(end)) =>
        LET k == AtLeastOne(RequestedMonths)
            current == MonthOrd(environ.today)
        IN  /\ start.day = 1 /\ start.month \in 1..12
            /\ end.day = 1 /\ end.month \in 1..12
            /\ MonthOrd(start) = current - (k - 1)
            /\ MonthOrd(end) = current + 1
            /\ MonthOrd(end) - MonthOrd(start) = k
            /\ \A i \in DOMAIN requests :
                  requests[i].start = start /\ requests[i].end = end
            /\ \A offset \in {-(k - 1), k - 1, -k, 1} :
                  ShiftCorrect(month_start(environ.today), offset)

\* C4's case: --months 0 in a December: the period is the current month
\* alone and ends in the next year, and a request has been sent for it.
C4_Witness ==
    /\ args.months = Some(0)
    /\ environ.today.month = 12
    /\ requests # <<>>
    /\ ~IsError(start) /\ ~IsError(end)
    /\ start = month_start(environ.today)
    /\ end.year = environ.today.year + 1

\* The items of all pages, one after another.
RECURSIVE Flatten(_)
Flatten(seqs) == IF seqs = <<>> THEN <<>> ELSE Head(seqs) \o Flatten(Tail(seqs))

\* Every amount the pages report, with the month and (for a group) the
\* account id it is reported for.
ReportedTotals(pages) ==
    LET items == Flatten(pages)
    IN  [i \in DOMAIN items |->
            [month |-> items[i].Start, account |-> <<>>, amount |-> items[i].Total]]

ReportedGroups(pages) ==
    LET items == Flatten(pages)
    IN  Flatten([i \in DOMAIN items |->
                    [j \in DOMAIN items[i].Groups |->
                        [month |-> items[i].Start,
                         account |-> items[i].Groups[j].Key,
                         amount |-> items[i].Groups[j].Amount]]])

\* The sum of the amounts reported for an account and a month.
RECURSIVE SumFor(_, _, _)
SumFor(reported, account, month) ==
    IF reported = <<>> THEN 0
    ELSE (IF Head(reported).account = account /\ Head(reported).month = month
          THEN Head(reported).amount ELSE 0)
         + SumFor(Tail(reported), account, month)

\* C1: when the page loop of query_costs has ended, one request was sent per
\* page, the first without a token and each later one with the NextPageToken
\* of the response before it, only the last response had no token, and the
\* totals hold, for exactly the months (and, grouped, the account ids and
\* months) some page reported, the sum of the amounts reported for them.
C1_Pagination ==
    pc = "return" =>
        LET profile == profile_at(profiles, index)
            script == ce[profile]
            sent == cost_requests(requests, profile)
            response(i) == get_cost_and_usage(script, sent[i].token)
        IN  /\ Len(sent) = Len(script.pages)
            /\ sent[1].token = 0
            /\ \A i \in 1..(Len(sent) - 1) :
                  /\ response(i).NextPageToken # 0
                  /\ sent[i + 1].token = response(i).NextPageToken
                  /\ response(i).ResultsByTime = script.pages[i]
            /\ response(Len(sent)).NextPageToken = 0
            /\ response(Len(sent)).ResultsByTime = script.pages[Len(sent)]
            /\ IF args.by_account
               THEN LET reported == ReportedGroups(script.pages)
                    IN  /\ DictKeys(totals) = {r.account : r \in Range(reported)}
                        /\ \A i, j \in DOMAIN totals :
                              totals[i].k = totals[j].k => i = j
                        /\ \A i \in DOMAIN totals :
                              /\ DOMAIN totals[i].v =
                                    {r.month : r \in {q \in Range(reported) :
                                                        q.account = totals[i].k}}
                              /\ \A m \in DOMAIN totals[i].v :
                                    totals[i].v[m] = SumFor(reported, totals[i].k, m)
               ELSE LET reported == ReportedTotals(script.pages)
                    IN  /\ DOMAIN totals = {r.month : r \in Range(reported)}
                        /\ \A m \in DOMAIN totals :
                              totals[m] = SumFor(reported, <<>>, m)

\* C1's case: a grouped query over three pages has ended, and the October
\* total of account 222 (2 - 1 + 2) comes from all three pages.
C1_Witness ==
    /\ pc = "return"
    /\ args.by_account
    /\ ce[profile_at(profiles, index)].pages
          = <<<<ItemA>>, <<ItemB, ItemC>>, <<ItemA>>>>
    /\ Len(requests) = 3
    /\ MapGet(DictGet(totals, Acc2, EmptyMap), Oct, 0) = 3

\* ---- the profiles: every exclusion source against the available profiles

Field(name, lpad, rpad) == [name |-> name, lpad |-> lpad, rpad |-> rpad]

EnvFields ==
    {Field(<<>>, FALSE, FALSE), Field(<<>>, TRUE, FALSE), Field(ProfA, FALSE, FALSE),
     Field(ProfA, TRUE, TRUE), Field(ProfAB, FALSE, TRUE),
     Field(DEFAULT_PROFILE_DISPLAY, FALSE, FALSE)}

\* The text of MONTHLY_COSTS_EXCLUDE written from a list of fields.
RECURSIVE JoinFields(_)
JoinFields(fields) ==
    IF fields = <<>> THEN <<>>
    ELSE LET f == Head(fields)
             text == (IF f.lpad THEN <<" ">> ELSE <<>>) \o f.name
                        \o (IF f.rpad THEN <<" ">> ELSE <<>>)
         IN  IF Len(fields) = 1 THEN text
             ELSE text \o <<",">> \o JoinFields(Tail(fields))

InitProfiles ==
    /\ \E given \in {<<>>, <<ProfB, ProfB>>},
          exclude \in {<<>>, <<ProfA>>, <<DEFAULT_PROFILE_DISPLAY, ProfB>>},
          all_profiles \in BOOLEAN :
          args = [ArgsDefault EXCEPT !.profiles = given, !.exclude = exclude,
                                     !.all_profiles = all_profiles]
    /\ \E ignore \in {<<>>, <<ProfB>>, <<ProfB, ProfAB>>} :
          config = [ConfigDefault EXCEPT !.ignore_profiles = ignore]
    /\ \E fields \in {<<>>} \cup SeqsUpTo(EnvFields, 2),
          available \in {<<>>, <<ProfB, ProfA>>, <<ProfAB, ProfB, ProfA>>,
                         <<DEFAULT_PROFILE_DISPLAY, ProfA>>},
          has_credentials \in BOOLEAN :
          environ = [EnvironDefault EXCEPT
                        !.MONTHLY_COSTS_EXCLUDE = JoinFields(fields),
                        !.excluded_names = [i \in DOMAIN fields |-> fields[i].name],
                        !.available_profiles = available,
                        !.has_credentials = has_credentials]
    /\ ce = CeDefault
    /\ MainInit

SpecProfiles == InitProfiles /\ [][Next]_vars

\* ---- the output files: every --format, export default and output path

OutputNames ==
    {<<"r">>, <<"r", ".", "c", "s", "v">>, <<"r", ".", "v", "2">>, <<".", "r">>,
     <<"r", ".">>}

InitFormats ==
    /\ \E format \in {"", "table", "csv", "tsv", "all"},
          output \in {None} \cup {Some([parent |-> d, name |-> n]) :
                                    d \in {<<>>, <<"/", "srv">>}, n \in OutputNames} :
          args = [ArgsDefault EXCEPT !.format = format, !.output = output]
    /\ \E export \in BOOLEAN, output_dir \in {<<>>, <<"reports">>, <<"/", "srv">>} :
          config = [ConfigDefault EXCEPT !.export_files_by_default = export,
                                         !.output_dir = output_dir]
    /\ environ = EnvironDefault
    /\ ce = CeDefault
    /\ MainInit

SpecFormats == InitFormats /\ [][Next]_vars

\* ------------------------------------------------------------------ C5

\* The names excluded by the config, the variable and the options.
ExcludedUnion ==
    Range(config.ignore_profiles)
        \cup {n \in Range(environ.excluded_names) : n # <<>>}
        \cup Range(args.exclude)

Remaining == Range(environ.available_profiles) \ ExcludedUnion

DefaultCredentialsApply ==
    /\ Remaining = {}
    /\ environ.has_credentials
    /\ DEFAULT_PROFILE_DISPLAY \notin ExcludedUnion

\* C5: without --profile, once the profiles are resolved: if nothing remains
\* and the default credentials do not apply, main has exited without a
\* request; else the list is the default entry alone, or the available
\* profiles that are not excluded, each once and in ascending order, and
\* every request goes to a profile of the list, never to an excluded one.
C5_Excluded ==
    (args.profiles = <<>> /\ pc \notin {"start", "outputs", "profiles"}) =>
        IF Remaining = {} /\ ~DefaultCredentialsApply
        THEN /\ pc = "exit"
             /\ exit \in {"no profiles after exclusion", "no profiles configured"}
             /\ requests = <<>>
        ELSE /\ exit \notin {"no profiles after exclusion", "no profiles configured"}
             /\ IF DefaultCredentialsApply
                THEN profiles = <<DEFAULT_PROFILE_LABEL>>
                ELSE /\ Range(profiles) = Remaining
                     /\ \A i, j \in DOMAIN profiles :
                           i < j => StrLess(profiles[i], profiles[j])
                     /\ \A i \in DOMAIN requests :
                           requests[i].profile \notin ExcludedUnion
             /\ \A i \in DOMAIN requests : requests[i].profile \in Range(profiles)

\* C5's case: "a" is excluded by a padded field of the variable and "b" by the
\* config, and the run has queried the one profile left.
C5_Witness ==
    /\ pc = "done"
    /\ args.profiles = <<>>
    /\ environ.available_profiles = <<ProfAB, ProfB, ProfA>>
    /\ environ.MONTHLY_COSTS_EXCLUDE = <<" ", "a", " ">>
    /\ config.ignore_profiles = <<ProfB>>
    /\ profiles = <<ProfAB>>
    /\ requests # <<>>

\* ------------------------------------------------------------------ C6

\* The formats the options and the config ask for.
ExpectedFormats ==
    IF args.format \in {"table", "csv", "tsv"} THEN {args.format}
    ELSE IF args.format = "all" THEN {"table", "csv", "tsv"}
    ELSE IF config.export_files_by_default THEN {"table", "csv", "tsv"}
    ELSE {}

ExtOf(fmt) ==
    IF fmt = "table" THEN <<".", "t", "x", "t">>
    ELSE IF fmt = "csv" THEN <<".", "c", "s", "v">>
    ELSE <<".", "t", "s", "v">>

\* The name without its last four characters, the extension.
BaseOf(name) == SubSeq(name, 1, Len(name) - 4)

EndsWith(name, ext) ==
    Len(name) >= Len(ext) /\ SubSeq(name, Len(name) - Len(ext) + 1, Len(name)) = ext

\* C6: the files written are never other than the expected formats' files,
\* and when the run has ended with results there is exactly one file per
\* expected format, named base + .txt, .csv or .tsv in one directory with
\* one base, so that the files are pairwise distinct.
C6_Formats ==
    /\ {files[p].fmt : p \in DOMAIN files} \subseteq ExpectedFormats
    /\ pc = "done" =>
          /\ {files[p].fmt : p \in DOMAIN files} = ExpectedFormats
          /\ Cardinality(DOMAIN files) = Cardinality(ExpectedFormats)
          /\ \A p \in DOMAIN files : EndsWith(p.name, ExtOf(files[p].fmt))
          /\ \A p, q \in DOMAIN files :
                /\ p.parent = q.parent
                /\ BaseOf(p.name) = BaseOf(q.name)
                /\ files[p].fmt = files[q].fmt => p = q

\* C6's case: --format all with --output r.csv: three files r.txt, r.csv
\* and r.tsv have been written.
C6_Witness ==
    /\ pc = "done"
    /\ args.format = "all"
    /\ args.output = Some([parent |-> <<>>, name |-> <<"r", ".", "c", "s", "v">>])
    /\ Cardinality(DOMAIN files) = 3
    /\ [parent |-> PROJECT_ROOT, name |-> <<"r", ".", "t", "x", "t">>] \in DOMAIN files

\* ------------------------------------------------------------------ C7

BothCreditFlags == args.exclude_credits /\ args.only_credits

\* C7: with both credit flags, main has exited with that error as soon as it
\* has left its first stage, with no directory made, no profile resolved, no
\* request sent and nothing written; with at most one of them no run ends
\* with that error, and every request carries the filter of the flag given.
C7_CreditFlags ==
    /\ (BothCreditFlags /\ pc # "start") =>
          /\ pc = "exit"
          /\ exit = "exclude-credits with only-credits"
          /\ dirs = {} /\ output_files = <<>>
          /\ profiles = <<>>
          /\ requests = <<>>
          /\ files = EmptyMap
    /\ ~BothCreditFlags =>
          /\ exit # "exclude-credits with only-credits"
          /\ \A i \in DOMAIN requests :
                requests[i].api = "get_cost_and_usage" =>
                    requests[i].filter =
                        IF args.only_credits THEN "only Credit, Refund"
                        ELSE IF args.exclude_credits THEN "not Credit, Refund"
                        ELSE "none"

\* C7's case: both flags were given and main has exited.
C7_Witness ==
    /\ BothCreditFlags
    /\ pc = "exit"
    /\ exit = "exclude-credits with only-credits"

\* ------------------------------------------------------------------ C2

\* The requests sent for a profile, of either API.
RequestsOf(profile) == SelectSeq(requests, LAMBDA r : r.profile = profile)

\* Whether an API call made for the profile fails: a cost page that is
\* requested, or the account-name lookup of the by-account mode.
CostFails(profile) == ce[profile].fail_at \in 1..Len(ce[profile].pages)

CallFails(profile) ==
    CostFails(profile) \/ (args.by_account /\ ce[profile].names_fail)

\* The requests a profile takes when it is queried once.
RequestsOfOneQuery(profile) ==
    IF CostFails(profile) THEN ce[profile].fail_at
    ELSE Len(ce[profile].pages) + (IF args.by_account THEN 1 ELSE 0)

IsPrefix(s, t) == Len(s) <= Len(t) /\ SubSeq(t, 1, Len(s)) = s

\* Whether a key of results is a row of the profile.
RowOfProfile(key, profile) ==
    \/ key = display_name_of(profile)
    \/ IsPrefix(display_name_of(profile) \o <<" ", "[">>, key)

\* The step in which main reports a profile's error.
ErrorStep ==
    /\ Len(stdout') = Len(stdout) + 1
    /\ stdout'[Len(stdout')].kind = "error"

\* The profiles whose loop iteration is over.
Handled == {profiles[i] : i \in 1..(IF index > 0 THEN index - 1 ELSE 0)}

LoopOver == index > Len(profiles) /\ pc \in {"loop", "write", "done", "exit"}

\* C2: a profile with a failing API call never has a row and is never sent
\* more requests than one query takes up to the failure; the step that
\* reports the failure leaves results and all_months as they are and moves
\* to the next profile; and when the loop is over every profile of the list
\* has been sent the requests of one query.
C2_ProfileFailure ==
    /\ [](\A p \in Range(profiles) :
            /\ CallFails(p) =>
                  /\ \A i \in DOMAIN results : ~RowOfProfile(results[i].k, p)
                  /\ Len(RequestsOf(p)) <= RequestsOfOneQuery(p)
            /\ LoopOver => Len(RequestsOf(p)) = RequestsOfOneQuery(p))
    /\ [][ErrorStep =>
            /\ results' = results
            /\ all_months' = all_months
            /\ index' = index + 1
            /\ pc' = "loop"]_vars

\* C2's case: of three profiles the second failed; the first and the third
\* have their rows, the second has none, and the run has ended.
C2_Witness ==
    /\ pc = "done"
    /\ ~args.by_account
    /\ profiles = <<ProfA, ProfAB, ProfB>>
    /\ CallFails(ProfAB) /\ ~CallFails(ProfA) /\ ~CallFails(ProfB)
    /\ \E i \in DOMAIN stdout : stdout[i] = [kind |-> "error", text |-> ProfAB]
    /\ DictKeys(results) = {ProfA, ProfB}
    /\ Len(RequestsOf(ProfB)) > 0

\* ------------------------------------------------------------------ C3

\* The profiles of the requests, in the order of their first request.
RequestOrder == Dedupe([i \in DOMAIN requests |-> requests[i].profile])

\* The requests that begin a query: a cost request without a token.
QueryStarts(profile) ==
    SelectSeq(requests, LAMBDA r : r.profile = profile
                                      /\ r.api = "get_cost_and_usage" /\ r.token = 0)

TablePrinted == \E i \in DOMAIN stdout : stdout[i].kind \in {"header", "row"}

\* C3: the profiles are queried in the order of the list, each in one
\* unbroken run of requests that begins one query; and once the loop is over
\* every profile has been queried; a table row is printed or a file
\* written only after the loop is over, when no request follows.
C3_OncePerProfile ==
    /\ [](/\ IsPrefix(RequestOrder, profiles)
          /\ \A p \in Range(RequestOrder) : Len(QueryStarts(p)) = 1
          /\ \A i, j, k \in DOMAIN requests :
                (i < j /\ j < k /\ requests[i].profile = requests[k].profile)
                    => requests[j].profile = requests[i].profile
          /\ LoopOver => RequestOrder = profiles
          /\ (TablePrinted \/ files # EmptyMap) =>
                (LoopOver /\ pc \in {"write", "done"}))
    /\ [][(TablePrinted \/ files # EmptyMap) => requests' = requests]_vars

\* C3's case: three profiles were queried, the table is printed and the
\* files are written.
C3_Witness ==
    /\ pc = "done"
    /\ Len(profiles) = 3
    /\ RequestOrder = profiles
    /\ TablePrinted
    /\ files # EmptyMap

\* ------------------------------------------------------------------ C8

\* The months some row of results has an amount for, ascending.
RowMonths == SortedInts(UNION {DOMAIN results[i].v : i \in DOMAIN results})

PrintedRows == SelectSeq(stdout, LAMBDA line : line.kind = "row")

PrintedHeaders == SelectSeq(stdout, LAMBDA line : line.kind = "header")

\* A header or a file's header line holds "profile" and the labels of the
\* months of the rows, ascending.
HeaderMatches(headers) ==
    /\ Len(headers) = 1 + Len(RowMonths)
    /\ \A c \in 1..Len(RowMonths) : headers[c + 1] = RowMonths[c] \div 100

\* The rows hold, for each row of results, its label and a cell per month of
\* the rows, 0 where the row has no amount.
RowsMatch(rows) ==
    /\ Len(rows) = Len(results)
    /\ \A r \in DOMAIN rows :
          /\ Len(rows[r]) = 1 + Len(RowMonths)
          /\ rows[r][1] = results[r].k
          /\ \A c \in 1..Len(RowMonths) :
                RowMonths[c] \notin DOMAIN results[r].v => rows[r][c + 1] = 0

\* C8: once the table is printed, its month columns are the months of the
\* collected rows, each once and ascending, and every row printed and every
\* row of every file written has one label cell and one cell per column, 0
\* for a month the row has no amount for.
C8_Rectangular ==
    pc \in {"write", "done"} =>
        /\ \A h \in DOMAIN PrintedHeaders : HeaderMatches(PrintedHeaders[h].text)
        /\ RowsMatch([r \in DOMAIN PrintedRows |-> PrintedRows[r].text])
        /\ \A p \in DOMAIN files :
              HeaderMatches(files[p].headers) /\ RowsMatch(files[p].rows)

\* ------------------------------------------------------------------ C9

\* The (profile, account id) pairs the billing API returned amounts for, over
\* the profiles queried without a failure.
ReturnedPairs ==
    {pair \in Handled \X {Acc1, Acc2} :
        /\ ~CallFails(pair[1])
        /\ \E r \in Range(ReportedGroups(ce[pair[1]].pages)) : r.account = pair[2]}

\* C9: in by-account mode, when the loop is over, results has one row per
\* returned pair, and each row holds the month sums of one pair.
C9_RowPerAccount ==
    (args.by_account /\ LoopOver) =>
        /\ Len(results) = Cardinality(ReturnedPairs)
        /\ \A i \in DOMAIN results :
              \E pair \in ReturnedPairs :
                  LET reported == ReportedGroups(ce[pair[1]].pages)
                  IN  /\ RowOfProfile(results[i].k, pair[1])
                      /\ DOMAIN results[i].v =
                            {r.month : r \in {q \in Range(reported) :
                                                q.account = pair[2]}}
                      /\ \A m \in DOMAIN results[i].v :
                            results[i].v[m] = SumFor(reported, pair[2], m)

====
